---- MODULE Spec2Model ----
(***************************************************************************)
(* Gateway clients of openclaw-vscode.                                     *)
(*                                                                         *)
(*  program = "cli"        AntigravityGatewayClient (src/unnamed/part_000) *)
(*  program = "extension"  GatewayConnection        (src/unnamed/part_001) *)
(*                                                                         *)
(* The two classes live in different processes, so a behaviour runs one of *)
(* them; both keep a socket (ws), a counter (messageId) and a table        *)
(* (pendingRequests), which the model shares between the two programs.     *)
(*                                                                         *)
(* Time is abstracted: an armed timer may fire at any later step.          *)
(***************************************************************************)
EXTENDS Naturals, Integers, Sequences, FiniteSets, TLC

\* ------------------------------------------------------------------ bounds
MaxSockets == 2
MaxRequests == 2
MaxSteps == 7
MaxInvocations == 1

Sockets == 1..MaxSockets
RequestNumbers == 1..MaxRequests

\* --------------------------------------------------------------- constants
GATEWAY_TOKEN == "735d94a8"
Methods == {"status"}

\* String(n), as JavaScript prints a small positive integer. An id is held as
\* its JSON text: the cli client's keys are these strings, the extension's keys are
\* the numbers they print.
Digits == <<"1", "2", "3", "4", "5", "6", "7", "8", "9">>
String(n) == Digits[n]

RequestIds == {String(n) : n \in RequestNumbers}

VARIABLES
    program,          \* which of the two clients this process runs
    token,            \* this.token / config gatewayToken
    ws,               \* this.ws: a socket, or 0 for null / undefined
    readyState,       \* per socket created so far
    closeCalled,      \* sockets on which the client has called close()
    connected,        \* AntigravityGatewayClient.connected
    authenticated,    \* AntigravityGatewayClient.authenticated
    serverInfo,       \* AntigravityGatewayClient.serverInfo
    messageId,        \* this.messageId
    pendingRequests,  \* keys of this.pendingRequests
    connectPromise,   \* per connect() call (= per socket): the promise it returned
    connectTimer,     \* per connect() call: its 15 s timer is armed
    requestPromise,   \* per request id: the promise request() / sendRequest() returned
    requestTimer,     \* ids whose 30 s timer is armed
    completions,      \* per request id: calls of its resolve / reject
    wire,             \* frames written with ws.send, in order
    crashed,          \* an exception escaped a callback: the process is gone
    autoConnect,      \* configuration openclaw.autoConnect
    activated,        \* activate() has run (the cli's main() has constructed its client)
    reconnectTimer,   \* GatewayConnection.reconnectTimer: the handle it holds
    timers,           \* number of armed reconnect timers
    invocations,      \* vscode.invoke handlers waiting for executeVSCodeAction
    steps,            \* callbacks and calls run so far
    last,             \* the step just taken: operation, arguments, outcome
    requestFile,      \* file IPC: the content of request.json, or NoFile
    written,          \* file IPC: request files the client has written so far
    responseWrites,   \* file IPC: the writes of response.json, in order
    processing,       \* file IPC: per processRequest invocation, where it stands
    executed,         \* file IPC: the calls of executeVSCodeAction, in order
    now,              \* chatWithAntigravity: Date.now() - startTime
    timeout,          \* chatWithAntigravity: params.timeoutMs
    lastResponseLength, \* chatWithAntigravity: the local of that name
    stableCount,      \* chatWithAntigravity: the local of that name
    observed,         \* chatWithAntigravity: the response length each poll saw
    chatResult,       \* chatWithAntigravity: what it returned, if it has
    agents,           \* broadcastToAgents: params.agents
    position,         \* broadcastToAgents: index of the agent the loop is at
    attempts,         \* broadcastToAgents: the calls of sendToAgent, in order
    results,          \* broadcastToAgents: the results record, per key
    broadcast         \* broadcastToAgents: notCalled, running, returned or threw

sessionVars == <<ws, readyState, closeCalled, connected, authenticated, serverInfo,
                 messageId, pendingRequests, connectPromise, connectTimer,
                 requestPromise, requestTimer, completions, wire, crashed>>

extensionVars == <<reconnectTimer, timers, invocations>>

configVars == <<program, token, autoConnect, activated>>

ipcVars == <<requestFile, written, responseWrites, processing, executed>>

chatVars == <<now, timeout, lastResponseLength, stableCount, observed, chatResult>>

broadcastVars == <<agents, position, attempts, results, broadcast>>

actionVars == <<ipcVars, chatVars, broadcastVars>>

vars == <<configVars, sessionVars, extensionVars, steps, last, actionVars>>

\* every step is one callback or call; a crashed process runs nothing
Tick == ~crashed /\ steps < MaxSteps /\ steps' = steps + 1

\* ---------------------------------------------------------------- promises
NoPromise == [state |-> "none", value |-> "none"]
Pending == [state |-> "pending", value |-> "none"]
Resolved(v) == [state |-> "resolved", value |-> v]
Rejected(m) == [state |-> "rejected", value |-> m]

\* resolve / reject of a promise: the first settlement stays
Settle(p, outcome) == IF p.state = "pending" THEN outcome ELSE p

\* ------------------------------------------------------------------ sockets
\* readyState of a socket of the ws library, with the CLOSING cases apart:
\*   "CLOSING"  close() was called on an open socket; frames still arrive
\*   "ABORTED"  close() was called while connecting; an error event follows
\*   "FAILED"   the error event was emitted; the close event follows
NumSockets == Cardinality({s \in Sockets : readyState[s] # "NONE"})

IsOpen(s) == s # 0 /\ readyState[s] = "OPEN"

\* ws.close()
CloseSocket(rs, s) ==
    IF s = 0 THEN rs
    ELSE CASE rs[s] = "CONNECTING" -> [rs EXCEPT ![s] = "ABORTED"]
           [] rs[s] = "OPEN" -> [rs EXCEPT ![s] = "CLOSING"]
           [] OTHER -> rs

\* ------------------------------------------------------------------- frames
NoFrame == [type |-> "none", event |-> "none", id |-> "none", ok |-> FALSE,
            payload |-> "none", error |-> "none", method |-> "none",
            code |-> 0, action |-> "none"]

\* data that JSON.parse rejects
Malformed == [NoFrame EXCEPT !.type = "malformed"]

HelloOk == "hello-ok"
DataPayloads == {"P1", "P2"}
Payloads == {HelloOk} \cup DataPayloads

ChallengeFrame == [NoFrame EXCEPT !.type = "event", !.event = "connect.challenge"]
ChatEvent == [NoFrame EXCEPT !.type = "event", !.event = "chat"]
OtherFrame == [NoFrame EXCEPT !.type = "pong"]

ResponseIds == RequestIds \cup {"connect", "none"}

ResFrames ==
    {[NoFrame EXCEPT !.type = "res", !.id = i, !.ok = TRUE, !.payload = p] :
        i \in ResponseIds, p \in Payloads}
    \cup
    {[NoFrame EXCEPT !.type = "res", !.id = i, !.error = e] :
        i \in ResponseIds, e \in {"none", "E1"}}

\* what the gateway may send to AntigravityGatewayClient
InboundFrames == {ChallengeFrame, ChatEvent, OtherFrame, Malformed} \cup ResFrames

\* msg.error?.message || fallback
ErrorMessage(msg, fallback) == IF msg.error \in {"none", "empty"} THEN fallback ELSE msg.error

\* frames the clients write
OutFrame(s, type, id, method, tok, body) ==
    [sock |-> s, type |-> type, id |-> id, method |-> method, token |-> tok,
     body |-> body]

\* the step just taken: the operation, the id of the frame or request it handled,
\* the error it threw and the number of calls of the observer callback it made
Step(op, id, thrown, observer) ==
    [op |-> op, id |-> id, thrown |-> thrown, observer |-> observer]

\* ------------------------------------------------- AntigravityGatewayClient
\* send(message): written only when the current socket is OPEN
send(w, message) ==
    IF IsOpen(ws) THEN Append(w, [message EXCEPT !.sock = ws]) ELSE w

\* mutant: the connect request carries no credential
sendConnect_NoToken(w) == send(w, OutFrame(0, "req", "connect", "connect", "none", "none"))

\* sendConnect(nonce): the nonce is not used
sendConnect(w) == send(w, OutFrame(0, "req", "connect", "connect", token, "none"))

\* mutant: the timeout callback looks at connected instead of authenticated
connectExpired_ChecksConnected(p) ==
    IF ~connected THEN Settle(p, Rejected("Connection timeout")) ELSE p

\* the timeout callback of connect(): rejects unless authenticated
connectExpired(p) ==
    IF ~authenticated THEN Settle(p, Rejected("Connection timeout")) ELSE p

\* the message handler's answer to connect.challenge
onChallenge ==
    /\ wire' = sendConnect(wire)
    /\ UNCHANGED <<authenticated, serverInfo, pendingRequests, connectPromise,
                   requestPromise, completions, crashed>>

\* mutant: the hello-ok branch does not record the server's payload
onHelloOk_NoServerInfo(s, msg) ==
    /\ authenticated' = TRUE
    /\ serverInfo' = serverInfo
    /\ connectPromise' = [connectPromise EXCEPT ![s] = Settle(@, Resolved("this"))]
    /\ UNCHANGED <<pendingRequests, requestPromise, completions, wire, crashed>>

\* the message handler's hello-ok branch
onHelloOk(s, msg) ==
    /\ authenticated' = TRUE
    /\ serverInfo' = msg.payload
    /\ connectPromise' = [connectPromise EXCEPT ![s] = Settle(@, Resolved("this"))]
    /\ UNCHANGED <<pendingRequests, requestPromise, completions, wire, crashed>>

\* mutant: the error-response branch does not return, and the frame goes on to
\* complete the pending request with its id
onAuthError_FallThrough(s, msg) ==
    /\ connectPromise' =
          [connectPromise EXCEPT
             ![s] = Settle(@, Rejected(ErrorMessage(msg, "Connection failed")))]
    /\ IF msg.id # "none" /\ msg.id \in pendingRequests THEN
            /\ pendingRequests' = pendingRequests \ {msg.id}
            /\ requestPromise' =
                  [requestPromise EXCEPT ![msg.id] =
                      Settle(@, Rejected(ErrorMessage(msg, "Request failed")))]
            /\ completions' = [completions EXCEPT ![msg.id] = @ + 1]
       ELSE UNCHANGED <<pendingRequests, requestPromise, completions>>
    /\ UNCHANGED <<authenticated, serverInfo, wire, crashed>>

\* the message handler's error-response branch, taken while not authenticated
onAuthError(s, msg) ==
    /\ connectPromise' =
          [connectPromise EXCEPT
             ![s] = Settle(@, Rejected(ErrorMessage(msg, "Connection failed")))]
    /\ UNCHANGED <<authenticated, serverInfo, pendingRequests, requestPromise,
                   completions, wire, crashed>>

\* the message handler's branch for a response to a pending request
onResponse(msg) ==
    /\ pendingRequests' = pendingRequests \ {msg.id}
    /\ requestPromise' =
          [requestPromise EXCEPT ![msg.id] =
              Settle(@, IF msg.ok THEN Resolved(msg.payload)
                        ELSE Rejected(ErrorMessage(msg, "Request failed")))]
    /\ completions' = [completions EXCEPT ![msg.id] = @ + 1]
    /\ UNCHANGED <<authenticated, serverInfo, connectPromise, wire, crashed>>

connect ==
    /\ program = "cli"
    /\ Tick
    /\ NumSockets < MaxSockets
    /\ LET s == NumSockets + 1 IN
        /\ ws' = s
        /\ readyState' = [readyState EXCEPT ![s] = "CONNECTING"]
        /\ connectPromise' = [connectPromise EXCEPT ![s] = Pending]
        /\ connectTimer' = [connectTimer EXCEPT ![s] = TRUE]
        /\ last' = Step("connect", "none", "none", 0)
    /\ UNCHANGED <<closeCalled, connected, authenticated, serverInfo, messageId,
                   pendingRequests, requestPromise, requestTimer, completions, wire,
                   crashed>>
    /\ UNCHANGED <<configVars, extensionVars, actionVars>>

\* ws.on('open')
onOpen(s) ==
    /\ program = "cli"
    /\ Tick
    /\ readyState[s] = "CONNECTING"
    /\ readyState' = [readyState EXCEPT ![s] = "OPEN"]
    /\ connected' = TRUE
    /\ last' = Step("open", "none", "none", 0)
    /\ UNCHANGED <<ws, closeCalled, authenticated, serverInfo, messageId,
                   pendingRequests, connectPromise, connectTimer, requestPromise,
                   requestTimer, completions, wire, crashed>>
    /\ UNCHANGED <<configVars, extensionVars, actionVars>>

\* mutant: the message handler ends without calling this.onMessage(msg)
onMessage_DropsOthers(s, msg) ==
    /\ program = "cli"
    /\ Tick
    /\ readyState[s] \in {"OPEN", "CLOSING"}
    /\ UNCHANGED <<ws, readyState, closeCalled, connected, messageId, connectTimer,
                   requestTimer>>
    /\ UNCHANGED <<configVars, extensionVars, actionVars>>
    /\ IF msg.type = "malformed" THEN \* JSON.parse throws out of the callback
            /\ crashed' = TRUE
            /\ last' = Step("message", msg.id, "SyntaxError", 0)
            /\ UNCHANGED <<authenticated, serverInfo, pendingRequests, connectPromise,
                           requestPromise, completions, wire>>
       ELSE IF msg.type = "event" /\ msg.event = "connect.challenge" THEN
            /\ onChallenge
            /\ last' = Step("message", msg.id, "none", 0)
       ELSE IF msg.type = "res" /\ msg.ok /\ msg.payload = HelloOk THEN
            /\ onHelloOk(s, msg)
            /\ last' = Step("message", msg.id, "none", 0)
       ELSE IF msg.type = "res" /\ ~msg.ok /\ ~authenticated THEN
            /\ onAuthError(s, msg)
            /\ last' = Step("message", msg.id, "none", 0)
       ELSE IF msg.type = "res" /\ msg.id # "none" /\ msg.id \in pendingRequests THEN
            /\ onResponse(msg)
            /\ last' = Step("message", msg.id, "none", 0)
       ELSE \* an event, or any other message: this.onMessage(msg)
            /\ last' = Step("message", msg.id, "none", 0)
            /\ UNCHANGED <<authenticated, serverInfo, pendingRequests, connectPromise,
                           requestPromise, completions, wire, crashed>>

\* ws.on('message'), on the socket s of the connect() call that attached it
onMessage(s, msg) ==
    /\ program = "cli"
    /\ Tick
    /\ readyState[s] \in {"OPEN", "CLOSING"}
    /\ UNCHANGED <<ws, readyState, closeCalled, connected, messageId, connectTimer,
                   requestTimer>>
    /\ UNCHANGED <<configVars, extensionVars, actionVars>>
    /\ IF msg.type = "malformed" THEN \* JSON.parse throws out of the callback
            /\ crashed' = TRUE
            /\ last' = Step("message", msg.id, "SyntaxError", 0)
            /\ UNCHANGED <<authenticated, serverInfo, pendingRequests, connectPromise,
                           requestPromise, completions, wire>>
       ELSE IF msg.type = "event" /\ msg.event = "connect.challenge" THEN
            /\ onChallenge
            /\ last' = Step("message", msg.id, "none", 0)
       ELSE IF msg.type = "res" /\ msg.ok /\ msg.payload = HelloOk THEN
            /\ onHelloOk(s, msg)
            /\ last' = Step("message", msg.id, "none", 0)
       ELSE IF msg.type = "res" /\ ~msg.ok /\ ~authenticated THEN
            /\ onAuthError(s, msg)
            /\ last' = Step("message", msg.id, "none", 0)
       ELSE IF msg.type = "res" /\ msg.id # "none" /\ msg.id \in pendingRequests THEN
            /\ onResponse(msg)
            /\ last' = Step("message", msg.id, "none", 0)
       ELSE \* an event, or any other message: this.onMessage(msg)
            /\ last' = Step("message", msg.id, "none", 1)
            /\ UNCHANGED <<authenticated, serverInfo, pendingRequests, connectPromise,
                           requestPromise, completions, wire, crashed>>

\* ws.on('error')
onError(s) ==
    /\ program = "cli"
    /\ Tick
    /\ readyState[s] \in {"CONNECTING", "OPEN", "CLOSING", "ABORTED"}
    /\ readyState' = [readyState EXCEPT ![s] = "FAILED"]
    /\ connectPromise' = [connectPromise EXCEPT ![s] = Settle(@, Rejected("socket error"))]
    /\ last' = Step("error", "none", "none", 0)
    /\ UNCHANGED <<ws, closeCalled, connected, authenticated, serverInfo, messageId,
                   pendingRequests, connectTimer, requestPromise, requestTimer,
                   completions, wire, crashed>>
    /\ UNCHANGED <<configVars, extensionVars, actionVars>>

\* ws.on('close')
onClose(s) ==
    /\ program = "cli"
    /\ Tick
    /\ readyState[s] \in {"OPEN", "CLOSING", "FAILED"}
    /\ readyState' = [readyState EXCEPT ![s] = "CLOSED"]
    /\ connected' = FALSE
    /\ authenticated' = FALSE
    /\ last' = Step("close", "none", "none", 0)
    /\ UNCHANGED <<ws, closeCalled, serverInfo, messageId, pendingRequests,
                   connectPromise, connectTimer, requestPromise, requestTimer,
                   completions, wire, crashed>>
    /\ UNCHANGED <<configVars, extensionVars, actionVars>>

\* the 15 s timer of connect() call s
connectTimeout(s) ==
    /\ program = "cli"
    /\ Tick
    /\ connectTimer[s]
    /\ connectTimer' = [connectTimer EXCEPT ![s] = FALSE]
    /\ connectPromise' = [connectPromise EXCEPT ![s] = connectExpired(@)]
    /\ last' = Step("connectTimeout", "none", "none", 0)
    /\ UNCHANGED <<ws, readyState, closeCalled, connected, authenticated, serverInfo,
                   messageId, pendingRequests, requestPromise, requestTimer,
                   completions, wire, crashed>>
    /\ UNCHANGED <<configVars, extensionVars, actionVars>>

\* mutant: the id is computed from the counter but the counter is not advanced
requestAccepted_NoIncrement(method) ==
    LET id == String(messageId + 1) IN
        /\ messageId' = messageId
        /\ pendingRequests' = pendingRequests \cup {id}
        /\ requestPromise' = [requestPromise EXCEPT ![id] = Pending]
        /\ wire' = send(wire, OutFrame(0, "req", id, method, "none", "none"))
        /\ requestTimer' = requestTimer \cup {id}
        /\ last' = Step("request", id, "none", 0)

\* the body of the promise request() returns once the check has passed
requestAccepted(method) ==
    LET id == String(messageId + 1) IN
        /\ messageId' = messageId + 1
        /\ pendingRequests' = pendingRequests \cup {id}
        /\ requestPromise' = [requestPromise EXCEPT ![id] = Pending]
        /\ wire' = send(wire, OutFrame(0, "req", id, method, "none", "none"))
        /\ requestTimer' = requestTimer \cup {id}
        /\ last' = Step("request", id, "none", 0)

\* mutant: request() without its authentication check
request_NoAuthCheck(method) ==
    /\ program = "cli"
    /\ Tick
    /\ UNCHANGED <<configVars, extensionVars, actionVars>>
    /\ messageId < MaxRequests
    /\ requestAccepted(method)
    /\ UNCHANGED <<ws, readyState, closeCalled, connected, authenticated,
                   serverInfo, connectPromise, connectTimer, completions, crashed>>

request(method) ==
    /\ program = "cli"
    /\ Tick
    /\ UNCHANGED <<configVars, extensionVars, actionVars>>
    /\ IF ~authenticated THEN
            /\ last' = Step("request", "none", "Not authenticated", 0)
            /\ UNCHANGED sessionVars
       ELSE
            /\ messageId < MaxRequests
            /\ requestAccepted(method)
            /\ UNCHANGED <<ws, readyState, closeCalled, connected, authenticated,
                           serverInfo, connectPromise, connectTimer, completions,
                           crashed>>

\* mutant: the timeout callback rejects without looking at the table
requestExpired_NoCheck(id) ==
    /\ pendingRequests' = pendingRequests \ {id}
    /\ requestPromise' =
          [requestPromise EXCEPT ![id] = Settle(@, Rejected("Request timeout"))]
    /\ completions' = [completions EXCEPT ![id] = @ + 1]

\* mutant: the timeout callback rejects and leaves the entry in the table
requestExpired_NoDelete(id) ==
    IF id \in pendingRequests THEN
        /\ pendingRequests' = pendingRequests
        /\ requestPromise' =
              [requestPromise EXCEPT ![id] = Settle(@, Rejected("Request timeout"))]
        /\ completions' = [completions EXCEPT ![id] = @ + 1]
    ELSE UNCHANGED <<pendingRequests, requestPromise, completions>>

\* the timeout callback of a request: acts only on an entry still in the table
requestExpired(id) ==
    IF id \in pendingRequests THEN
        /\ pendingRequests' = pendingRequests \ {id}
        /\ requestPromise' =
              [requestPromise EXCEPT ![id] = Settle(@, Rejected("Request timeout"))]
        /\ completions' = [completions EXCEPT ![id] = @ + 1]
    ELSE UNCHANGED <<pendingRequests, requestPromise, completions>>

\* mutant: the timer's callback writes the request frame again
requestTimeout_Resends(id) ==
    /\ program = "cli"
    /\ Tick
    /\ id \in requestTimer
    /\ requestTimer' = requestTimer \ {id}
    /\ requestExpired(id)
    /\ wire' = send(wire, OutFrame(0, "req", id, "status", "none", "none"))
    /\ last' = Step("requestTimeout", id, "none", 0)
    /\ UNCHANGED <<ws, readyState, closeCalled, connected, authenticated, serverInfo,
                   messageId, connectPromise, connectTimer, crashed>>
    /\ UNCHANGED <<configVars, extensionVars, actionVars>>

\* the 30 s timer of request id
requestTimeout(id) ==
    /\ program = "cli"
    /\ Tick
    /\ id \in requestTimer
    /\ requestTimer' = requestTimer \ {id}
    /\ requestExpired(id)
    /\ last' = Step("requestTimeout", id, "none", 0)
    /\ UNCHANGED <<ws, readyState, closeCalled, connected, authenticated, serverInfo,
                   messageId, connectPromise, connectTimer, wire, crashed>>
    /\ UNCHANGED <<configVars, extensionVars, actionVars>>

disconnect ==
    /\ program = "cli"
    /\ Tick
    /\ readyState' = CloseSocket(readyState, ws)
    /\ closeCalled' = IF ws # 0 THEN closeCalled \cup {ws} ELSE closeCalled
    /\ ws' = 0
    /\ connected' = FALSE
    /\ authenticated' = FALSE
    /\ last' = Step("disconnect", "none", "none", 0)
    /\ UNCHANGED <<serverInfo, messageId, pendingRequests, connectPromise,
                   connectTimer, requestPromise, requestTimer, completions, wire,
                   crashed>>
    /\ UNCHANGED <<configVars, extensionVars, actionVars>>

\* --------------------------------------------------------- GatewayConnection
\* executeVSCodeAction(action, params): a known action returns, an unknown one throws
Actions == {"getActiveFile", "ping"}
HandlerOutcome(action) ==
    IF action = "getActiveFile" THEN [ok |-> TRUE, value |-> "R1"]
    ELSE [ok |-> FALSE, value |-> "Unknown action"]

\* what the gateway may send to GatewayConnection
GC_Responses ==
    {[NoFrame EXCEPT !.id = i, !.payload = p] : i \in RequestIds, p \in DataPayloads}
    \cup
    {[NoFrame EXCEPT !.id = i, !.error = e] : i \in RequestIds, e \in {"E1", "empty"}}

GC_Invokes ==
    {[NoFrame EXCEPT !.method = "vscode.invoke", !.id = i, !.action = a] :
        i \in {"x", "1"}, a \in Actions}

GC_InboundFrames ==
    GC_Responses \cup GC_Invokes \cup
    {Malformed,
     [NoFrame EXCEPT !.type = "connected"],
     [NoFrame EXCEPT !.type = "error", !.code = 1008],
     [NoFrame EXCEPT !.type = "error", !.code = 1011]}

RemoveAt(seq, i) == [j \in 1..(Len(seq) - 1) |-> IF j < i THEN seq[j] ELSE seq[j + 1]]

\* get isConnected
GC_isConnected == IsOpen(ws)

\* mutant: send(message) that writes whatever the state of the socket
GC_send_NoCheck(w, rs, message) == Append(w, [message EXCEPT !.sock = ws])

\* send(message): written only when the current socket is OPEN; rs is the
\* readyState of the sockets at the time of the call
GC_send(w, rs, message) ==
    IF ws # 0 /\ rs[ws] = "OPEN" THEN Append(w, [message EXCEPT !.sock = ws]) ELSE w

\* authenticate(token)
GC_authenticate(w, rs) ==
    GC_send(w, rs, OutFrame(0, "connect", "none", "none",
                            IF token = "" THEN "undefined" ELSE token, "none"))

\* mutant: scheduleReconnect() that does not read the autoConnect setting
scheduleReconnect_IgnoresConfig(handle, armed) ==
    [handle |-> "armed",
     armed |-> (IF handle = "armed" THEN armed - 1 ELSE armed) + 1]

\* mutant: scheduleReconnect() arms a timer without clearing the one it holds
scheduleReconnect_NoClear(handle, armed) ==
    IF ~autoConnect THEN [handle |-> handle, armed |-> armed]
    ELSE [handle |-> "armed", armed |-> armed + 1]

\* scheduleReconnect(), on the handle held and the number of armed timers
scheduleReconnect(handle, armed) ==
    IF ~autoConnect THEN [handle |-> handle, armed |-> armed]
    ELSE [handle |-> "armed",
          armed |-> (IF handle = "armed" THEN armed - 1 ELSE armed) + 1]

\* connect(), called with the timer state (handle, armed) it finds
GC_connectBody(urlOk, handle, armed) ==
    IF GC_isConnected THEN
        /\ reconnectTimer' = handle
        /\ timers' = armed
        /\ UNCHANGED <<ws, readyState>>
    ELSE IF urlOk THEN
        /\ NumSockets < MaxSockets
        /\ ws' = NumSockets + 1
        /\ readyState' = [readyState EXCEPT ![NumSockets + 1] = "CONNECTING"]
        /\ reconnectTimer' = handle
        /\ timers' = armed
    ELSE \* new WebSocket(url) throws
        /\ reconnectTimer' = scheduleReconnect(handle, armed).handle
        /\ timers' = scheduleReconnect(handle, armed).armed
        /\ UNCHANGED <<ws, readyState>>

\* activate(): creates the GatewayConnection and, with autoConnect on, calls its
\* connect()
activate(urlOk) ==
    /\ program = "extension"
    /\ ~activated
    /\ Tick
    /\ activated' = TRUE
    /\ IF autoConnect THEN GC_connectBody(urlOk, reconnectTimer, timers)
       ELSE UNCHANGED <<ws, readyState, reconnectTimer, timers>>
    /\ last' = Step("activate", "none", "none", 0)
    /\ UNCHANGED <<closeCalled, connected, authenticated, serverInfo, messageId,
                   pendingRequests, connectPromise, connectTimer, requestPromise,
                   requestTimer, completions, wire, crashed, invocations>>
    /\ UNCHANGED <<program, token, autoConnect, actionVars>>

\* connect() called by the connectGateway command
GC_connect(urlOk) ==
    /\ program = "extension"
    /\ activated
    /\ Tick
    /\ GC_connectBody(urlOk, reconnectTimer, timers)
    /\ last' = Step("connect", "none", "none", 0)
    /\ UNCHANGED <<closeCalled, connected, authenticated, serverInfo, messageId,
                   pendingRequests, connectPromise, connectTimer, requestPromise,
                   requestTimer, completions, wire, crashed, invocations>>
    /\ UNCHANGED <<configVars, actionVars>>

\* a reconnect timer fires: the one reconnectTimer holds, or one it no longer holds
GC_reconnect(urlOk, held) ==
    /\ program = "extension"
    /\ activated
    /\ Tick
    /\ timers > 0
    /\ IF held THEN reconnectTimer = "armed"
       ELSE timers > (IF reconnectTimer = "armed" THEN 1 ELSE 0)
    /\ GC_connectBody(urlOk, IF held THEN "fired" ELSE reconnectTimer, timers - 1)
    /\ last' = Step("reconnect", "none", "none", 0)
    /\ UNCHANGED <<closeCalled, connected, authenticated, serverInfo, messageId,
                   pendingRequests, connectPromise, connectTimer, requestPromise,
                   requestTimer, completions, wire, crashed, invocations>>
    /\ UNCHANGED <<configVars, actionVars>>

\* ws.on('open')
GC_onOpen(s) ==
    /\ program = "extension"
    /\ activated
    /\ Tick
    /\ readyState[s] = "CONNECTING"
    /\ readyState' = [readyState EXCEPT ![s] = "OPEN"]
    /\ wire' = GC_authenticate(wire, readyState')
    /\ last' = Step("open", "none", "none", 0)
    /\ UNCHANGED <<ws, closeCalled, connected, authenticated, serverInfo, messageId,
                   pendingRequests, connectPromise, connectTimer, requestPromise,
                   requestTimer, completions, crashed>>
    /\ UNCHANGED <<configVars, extensionVars, actionVars>>

\* handleMessage: a frame whose id is in pendingRequests
GC_onResponse(msg) ==
    /\ pendingRequests' = pendingRequests \ {msg.id}
    /\ requestPromise' =
          [requestPromise EXCEPT ![msg.id] =
              Settle(@, IF msg.error # "none"
                        THEN Rejected(ErrorMessage(msg, "Unknown error"))
                        ELSE Resolved(msg.payload))]
    /\ completions' = [completions EXCEPT ![msg.id] = @ + 1]
    /\ UNCHANGED invocations

\* ws.on('message') -> handleMessage(data), up to the first await
GC_onMessage(s, msg) ==
    /\ program = "extension"
    /\ activated
    /\ Tick
    /\ readyState[s] \in {"OPEN", "CLOSING"}
    /\ UNCHANGED <<ws, readyState, closeCalled, connected, authenticated, serverInfo,
                   messageId, connectPromise, connectTimer, requestTimer, wire, crashed,
                   reconnectTimer, timers>>
    /\ UNCHANGED <<configVars, actionVars>>
    /\ IF msg.type = "malformed" THEN \* JSON.parse throws; caught and logged
            /\ last' = Step("message", msg.id, "caught", 0)
            /\ UNCHANGED <<pendingRequests, requestPromise, completions, invocations>>
       ELSE IF msg.id # "none" /\ msg.id \in pendingRequests THEN
            /\ GC_onResponse(msg)
            /\ last' = Step("message", msg.id, "none", 0)
       ELSE IF msg.type = "connected" THEN
            /\ last' = Step("message", msg.id, "none", 0)
            /\ UNCHANGED <<pendingRequests, requestPromise, completions, invocations>>
       ELSE IF msg.type = "error" /\ msg.code = 1008 THEN
            /\ last' = Step("message", msg.id, "none", 0)
            /\ UNCHANGED <<pendingRequests, requestPromise, completions, invocations>>
       ELSE IF msg.method = "vscode.invoke" THEN
            /\ Len(invocations) < MaxInvocations
            /\ invocations' =
                  Append(invocations, [id |-> msg.id, action |-> msg.action, sock |-> s])
            /\ last' = Step("invoke", msg.id, "none", 0)
            /\ UNCHANGED <<pendingRequests, requestPromise, completions>>
       ELSE
            /\ last' = Step("message", msg.id, "none", 0)
            /\ UNCHANGED <<pendingRequests, requestPromise, completions, invocations>>

\* mutant: handleMessage without the inner try/catch: a handler's exception reaches
\* the outer catch, which only logs it, and no reply is sent
GC_invokeDone_NoInnerCatch(i) ==
    /\ program = "extension"
    /\ activated
    /\ Tick
    /\ i \in 1..Len(invocations)
    /\ LET outcome == HandlerOutcome(invocations[i].action) IN
        wire' = IF outcome.ok
                THEN GC_send(wire, readyState,
                             OutFrame(0, "result", invocations[i].id, "none", "none",
                                      outcome.value))
                ELSE wire
    /\ invocations' = RemoveAt(invocations, i)
    /\ last' = Step("invokeDone", invocations[i].id, "none", 0)
    /\ UNCHANGED <<ws, readyState, closeCalled, connected, authenticated, serverInfo,
                   messageId, pendingRequests, connectPromise, connectTimer,
                   requestPromise, requestTimer, completions, crashed, reconnectTimer,
                   timers>>
    /\ UNCHANGED <<configVars, actionVars>>

\* handleMessage after its await: executeVSCodeAction has returned or thrown
GC_invokeDone(i) ==
    /\ program = "extension"
    /\ activated
    /\ Tick
    /\ i \in 1..Len(invocations)
    /\ LET outcome == HandlerOutcome(invocations[i].action) IN
        wire' = GC_send(wire, readyState,
                        OutFrame(0, IF outcome.ok THEN "result" ELSE "error",
                                 invocations[i].id, "none", "none", outcome.value))
    /\ invocations' = RemoveAt(invocations, i)
    /\ last' = Step("invokeDone", invocations[i].id, "none", 0)
    /\ UNCHANGED <<ws, readyState, closeCalled, connected, authenticated, serverInfo,
                   messageId, pendingRequests, connectPromise, connectTimer,
                   requestPromise, requestTimer, completions, crashed, reconnectTimer,
                   timers>>
    /\ UNCHANGED <<configVars, actionVars>>

\* ws.on('error')
GC_onError(s) ==
    /\ program = "extension"
    /\ activated
    /\ Tick
    /\ readyState[s] \in {"CONNECTING", "OPEN", "CLOSING", "ABORTED"}
    /\ readyState' = [readyState EXCEPT ![s] = "FAILED"]
    /\ last' = Step("error", "none", "none", 0)
    /\ UNCHANGED <<ws, closeCalled, connected, authenticated, serverInfo, messageId,
                   pendingRequests, connectPromise, connectTimer, requestPromise,
                   requestTimer, completions, wire, crashed, reconnectTimer, timers,
                   invocations>>
    /\ UNCHANGED <<configVars, actionVars>>

\* ws.on('close')
GC_onClose(s) ==
    /\ program = "extension"
    /\ activated
    /\ Tick
    /\ readyState[s] \in {"OPEN", "CLOSING", "FAILED"}
    /\ readyState' = [readyState EXCEPT ![s] = "CLOSED"]
    /\ reconnectTimer' = scheduleReconnect(reconnectTimer, timers).handle
    /\ timers' = scheduleReconnect(reconnectTimer, timers).armed
    /\ last' = Step("close", "none", "none", 0)
    /\ UNCHANGED <<ws, closeCalled, connected, authenticated, serverInfo, messageId,
                   pendingRequests, connectPromise, connectTimer, requestPromise,
                   requestTimer, completions, wire, crashed, invocations>>
    /\ UNCHANGED <<configVars, actionVars>>

\* mutant: disconnect() that forgets the handle without clearing the timer
GC_disconnect_NoClear ==
    /\ program = "extension"
    /\ activated
    /\ Tick
    /\ timers' = timers
    /\ reconnectTimer' = "undefined"
    /\ readyState' = CloseSocket(readyState, ws)
    /\ closeCalled' = IF ws # 0 THEN closeCalled \cup {ws} ELSE closeCalled
    /\ ws' = 0
    /\ last' = Step("disconnect", "none", "none", 0)
    /\ UNCHANGED <<connected, authenticated, serverInfo, messageId, pendingRequests,
                   connectPromise, connectTimer, requestPromise, requestTimer,
                   completions, wire, crashed, invocations>>
    /\ UNCHANGED <<configVars, actionVars>>

\* disconnect()
GC_disconnect ==
    /\ program = "extension"
    /\ activated
    /\ Tick
    /\ timers' = IF reconnectTimer = "armed" THEN timers - 1 ELSE timers
    /\ reconnectTimer' = "undefined"
    /\ readyState' = CloseSocket(readyState, ws)
    /\ closeCalled' = IF ws # 0 THEN closeCalled \cup {ws} ELSE closeCalled
    /\ ws' = 0
    /\ last' = Step("disconnect", "none", "none", 0)
    /\ UNCHANGED <<connected, authenticated, serverInfo, messageId, pendingRequests,
                   connectPromise, connectTimer, requestPromise, requestTimer,
                   completions, wire, crashed, invocations>>
    /\ UNCHANGED <<configVars, actionVars>>

GC_sendRequest(method) ==
    /\ program = "extension"
    /\ activated
    /\ Tick
    /\ messageId < MaxRequests
    /\ LET id == String(messageId + 1) IN
        /\ messageId' = messageId + 1
        /\ pendingRequests' = pendingRequests \cup {id}
        /\ requestPromise' = [requestPromise EXCEPT ![id] = Pending]
        /\ wire' = GC_send(wire, readyState, OutFrame(0, "request", id, method, "none", "none"))
        /\ requestTimer' = requestTimer \cup {id}
        /\ last' = Step("request", id, "none", 0)
    /\ UNCHANGED <<ws, readyState, closeCalled, connected, authenticated, serverInfo,
                   connectPromise, connectTimer, completions, crashed>>
    /\ UNCHANGED <<configVars, extensionVars, actionVars>>

\* the 30 s timer of sendRequest
GC_requestTimeout(id) ==
    /\ program = "extension"
    /\ activated
    /\ Tick
    /\ id \in requestTimer
    /\ requestTimer' = requestTimer \ {id}
    /\ requestExpired(id)
    /\ last' = Step("requestTimeout", id, "none", 0)
    /\ UNCHANGED <<ws, readyState, closeCalled, connected, authenticated, serverInfo,
                   messageId, connectPromise, connectTimer, wire, crashed>>
    /\ UNCHANGED <<configVars, extensionVars, actionVars>>

\* ----------------------------------------------------------------- file IPC
\* extension.ts polls request.json every 100 ms; each tick of the interval starts
\* processRequest(), and an invocation gives way at each of its awaits.
MaxFiles == 2
MaxTicks == 3

Ticks == 1..MaxTicks

NoFile == [serial |-> 0, json |-> "none"]

\* what a client can put into request.json: text that is not JSON, the JSON text
\* null, or a JSON object {id, action, params}
RequestTexts == {"invalid", "null", "object"}

NotStarted == [pc |-> "idle", content |-> NoFile]

NoResult == "none"

IpcResponse(ok, error, requestId, result) ==
    [ok |-> ok, error |-> error, requestId |-> requestId, result |-> result]

\* writeFile(RESPONSE_FILE, JSON.stringify(body)) of invocation i
writeFile(i, body) ==
    responseWrites' = Append(responseWrites, [by |-> i, body |-> body])

\* the client writes request.json
writeRequest(j) ==
    /\ program = "ipc"
    /\ written < MaxFiles
    /\ written' = written + 1
    /\ requestFile' = [serial |-> written + 1, json |-> j]
    /\ UNCHANGED <<responseWrites, processing, executed>>
    /\ UNCHANGED <<configVars, sessionVars, extensionVars, steps, last, chatVars,
                   broadcastVars>>

\* a tick of the interval: processRequest() starts and awaits fileExists
processRequest(i) ==
    /\ program = "ipc"
    /\ processing[i].pc = "idle"
    /\ IF i = 1 THEN TRUE ELSE processing[i - 1].pc # "idle"
    /\ processing' = [processing EXCEPT ![i].pc = "exists"]
    /\ UNCHANGED <<requestFile, written, responseWrites, executed>>
    /\ UNCHANGED <<configVars, sessionVars, extensionVars, steps, last, chatVars,
                   broadcastVars>>

\* fileExists(REQUEST_FILE) settles: return when there is no file, else readFile
fileExists(i) ==
    /\ program = "ipc"
    /\ processing[i].pc = "exists"
    /\ processing' = [processing EXCEPT
                        ![i].pc = IF requestFile = NoFile THEN "done" ELSE "read"]
    /\ UNCHANGED <<requestFile, written, responseWrites, executed>>
    /\ UNCHANGED <<configVars, sessionVars, extensionVars, steps, last, chatVars,
                   broadcastVars>>

\* readFile(REQUEST_FILE) settles: with the content, or with a fault that is
\* answered by a read error
readFile(i) ==
    /\ program = "ipc"
    /\ processing[i].pc = "read"
    /\ IF requestFile = NoFile
       THEN /\ writeFile(i, IpcResponse(FALSE, "Read error", "absent", NoResult))
            /\ processing' = [processing EXCEPT ![i].pc = "done"]
       ELSE /\ processing' = [processing EXCEPT ![i] = [pc |-> "delete",
                                                       content |-> requestFile]]
            /\ UNCHANGED responseWrites
    /\ UNCHANGED <<requestFile, written, executed>>
    /\ UNCHANGED <<configVars, sessionVars, extensionVars, steps, last, chatVars,
                   broadcastVars>>

\* deleteFile(REQUEST_FILE) settles (its faults are swallowed); the content is
\* parsed, request.action is read and executeVSCodeAction is called
deleteFile(i) ==
    /\ program = "ipc"
    /\ processing[i].pc = "delete"
    /\ requestFile' = NoFile
    /\ LET content == processing[i].content
       IN  CASE content.json = "invalid" ->
                  /\ writeFile(i, IpcResponse(FALSE, "Parse error", "absent", NoResult))
                  /\ processing' = [processing EXCEPT ![i].pc = "done"]
                  /\ UNCHANGED executed
             [] content.json = "null" ->
                  \* request is null: reading request.action throws outside any try
                  /\ processing' = [processing EXCEPT ![i].pc = "threw"]
                  /\ UNCHANGED <<responseWrites, executed>>
             [] OTHER ->
                  /\ executed' = Append(executed, [by |-> i, serial |-> content.serial])
                  /\ processing' = [processing EXCEPT ![i].pc = "action"]
                  /\ UNCHANGED responseWrites
    /\ UNCHANGED written
    /\ UNCHANGED <<configVars, sessionVars, extensionVars, steps, last, chatVars,
                   broadcastVars>>

\* executeVSCodeAction settles: the result or the error is written
actionSettled(i, thrown) ==
    /\ program = "ipc"
    /\ processing[i].pc = "action"
    /\ LET id == String(processing[i].content.serial)
       IN  IF thrown
           THEN writeFile(i, IpcResponse(FALSE, "action error", id, NoResult))
           ELSE writeFile(i, IpcResponse(TRUE, "none", id, "result"))
    /\ processing' = [processing EXCEPT ![i].pc = "done"]
    /\ UNCHANGED <<requestFile, written, executed>>
    /\ UNCHANGED <<configVars, sessionVars, extensionVars, steps, last, chatVars,
                   broadcastVars>>

InitFileIPC ==
    /\ requestFile = NoFile
    /\ written = 0
    /\ responseWrites = <<>>
    /\ processing = [i \in Ticks |-> NotStarted]
    /\ executed = <<>>

\* ------------------------------------------------------- chatWithAntigravity
\* actions.ts: the prompt is sent, then the conversation state is polled until the
\* response length is stable, the agent is idle, or the timeout has passed.
\* A response text is held as its length; times are in milliseconds since
\* startTime.
MaxLength == 2
MaxTimeoutPolls == 5

PollInterval == 500
BusyGrace == 2000

ResponseLengths == 0..MaxLength

\* params.timeoutMs
Timeouts == {k * PollInterval : k \in 3..MaxTimeoutPolls}

\* what antigravity.getConversationState gives: a fault, a value that is not an
\* object, or an object whose response has some length (0: none or empty)
ConversationStates ==
    {[kind |-> "throws", length |-> 0], [kind |-> "notObject", length |-> 0]} \cup
    {[kind |-> "object", length |-> n] : n \in ResponseLengths}

\* what antigravity.isAgentBusy gives
BusyStates == {"true", "false", "throws"}

NotCalled == [kind |-> "notCalled", success |-> FALSE, length |-> 0]
Polling == [kind |-> "polling", success |-> FALSE, length |-> 0]
Captured(n) == [kind |-> "captured", success |-> TRUE, length |-> n]
PanelNotice == [kind |-> "panel", success |-> TRUE, length |-> 0]
TimeoutNotice == [kind |-> "timeout", success |-> TRUE, length |-> 0]
ChatError == [kind |-> "error", success |-> FALSE, length |-> 0]

\* chatWithAntigravity(params): the chat is opened, the prompt sent and the agent
\* triggered; a fault of one of these commands is the result
chatWithAntigravity(t, thrown) ==
    /\ program = "chat"
    /\ chatResult = NotCalled
    /\ timeout' = t
    /\ chatResult' = IF thrown THEN ChatError ELSE Polling
    /\ UNCHANGED <<now, lastResponseLength, stableCount, observed>>
    /\ UNCHANGED <<configVars, sessionVars, extensionVars, steps, last, ipcVars,
                   broadcastVars>>

\* the stable count a poll leaves behind, and whether the poll returns the response
stableAfter(state) ==
    IF state.kind = "object" /\ state.length > 0
    THEN IF state.length = lastResponseLength
         THEN [count |-> stableCount + 1, length |-> lastResponseLength,
               done |-> stableCount + 1 >= 3]
         ELSE [count |-> 0, length |-> state.length, done |-> FALSE]
    ELSE [count |-> stableCount, length |-> lastResponseLength, done |-> FALSE]

\* one turn of the while loop: wait pollInterval, read the conversation state,
\* then ask whether the agent is busy; delay is the time the commands took
poll(state, busy, delay) ==
    /\ program = "chat"
    /\ chatResult = Polling
    /\ now < timeout
    /\ now' = now + PollInterval + delay
    /\ observed' = Append(observed, IF state.kind = "object" THEN state.length ELSE 0)
    /\ LET after == stableAfter(state)
       IN  /\ stableCount' = after.count
           /\ lastResponseLength' = after.length
           /\ chatResult' = IF after.done THEN Captured(state.length)
                            ELSE IF busy = "false" /\ now' > BusyGrace THEN PanelNotice
                            ELSE Polling
    /\ UNCHANGED timeout
    /\ UNCHANGED <<configVars, sessionVars, extensionVars, steps, last, ipcVars,
                   broadcastVars>>

\* the loop condition fails: the timeout notice is returned
pollTimeout ==
    /\ program = "chat"
    /\ chatResult = Polling
    /\ now >= timeout
    /\ chatResult' = TimeoutNotice
    /\ UNCHANGED <<now, timeout, lastResponseLength, stableCount, observed>>
    /\ UNCHANGED <<configVars, sessionVars, extensionVars, steps, last, ipcVars,
                   broadcastVars>>

InitChat ==
    /\ now = 0
    /\ timeout = 0
    /\ lastResponseLength = 0
    /\ stableCount = 0
    /\ observed = <<>>
    /\ chatResult = NotCalled

\* --------------------------------------------------------- broadcastToAgents
\* actions.ts: the text is sent to each agent of params.agents in turn.
MaxAgents == 3

AgentNames == {"claude", "Gemini", "nobody"}

\* params.agents
AgentLists == UNION {[1..n -> AgentNames] : n \in 0..MaxAgents}

toLowerCase(name) == IF name = "Gemini" THEN "gemini" ELSE name

NoEntry == [success |-> FALSE, error |-> "absent"]

\* sendToAgent({agent, text}): the handler of the agent runs its command, which
\* may throw; an unknown agent throws
sendToAgent(agent, commandThrows) ==
    LET agentId == toLowerCase(agent)
    IN  IF agentId \in {"antigravity", "gemini", "claude", "claude-code", "claudecode",
                        "copilot", "cody", "continue"}
        THEN IF commandThrows
             THEN [thrown |-> TRUE, error |-> "command failed"]
             ELSE [thrown |-> FALSE, error |-> "none"]
        ELSE [thrown |-> TRUE, error |-> "Unknown agent"]

\* the call: results = {} and the loop starts; an empty list returns at once
broadcastToAgents(list) ==
    /\ program = "broadcast"
    /\ broadcast = "notCalled"
    /\ agents' = list
    /\ position' = 1
    /\ broadcast' = IF list = <<>> THEN "returned" ELSE "running"
    /\ UNCHANGED <<attempts, results>>
    /\ UNCHANGED <<configVars, sessionVars, extensionVars, steps, last, ipcVars, chatVars>>

\* a loop turn without the try / catch around sendToAgent
broadcastTurn_NoCatch(commandThrows) ==
    /\ program = "broadcast"
    /\ broadcast = "running"
    /\ LET agent == agents[position]
           sent == sendToAgent(agent, commandThrows)
       IN  /\ attempts' = Append(attempts, [agent |-> agent, thrown |-> sent.thrown])
           /\ results' = IF sent.thrown THEN results
                         ELSE [results EXCEPT ![agent] = [success |-> TRUE,
                                                          error |-> "none"]]
           /\ broadcast' = IF sent.thrown THEN "threw"
                           ELSE IF position = Len(agents) THEN "returned"
                           ELSE "running"
    /\ position' = position + 1
    /\ UNCHANGED agents
    /\ UNCHANGED <<configVars, sessionVars, extensionVars, steps, last, ipcVars, chatVars>>

\* a loop turn: await sendToAgent for the agent at hand, record the outcome under
\* its name, and return the results after the last agent
broadcastTurn(commandThrows) ==
    /\ program = "broadcast"
    /\ broadcast = "running"
    /\ LET agent == agents[position]
           sent == sendToAgent(agent, commandThrows)
       IN  /\ attempts' = Append(attempts, [agent |-> agent, thrown |-> sent.thrown])
           /\ results' = [results EXCEPT ![agent] =
                             IF sent.thrown
                             THEN [success |-> FALSE, error |-> sent.error]
                             ELSE [success |-> TRUE, error |-> "none"]]
    /\ position' = position + 1
    /\ broadcast' = IF position = Len(agents) THEN "returned" ELSE "running"
    /\ UNCHANGED agents
    /\ UNCHANGED <<configVars, sessionVars, extensionVars, steps, last, ipcVars, chatVars>>

InitBroadcast ==
    /\ agents = <<>>
    /\ position = 0
    /\ attempts = <<>>
    /\ results = [name \in AgentNames |-> NoEntry]
    /\ broadcast = "notCalled"

\* --------------------------------------------------------------------- spec
InitSession ==
    /\ ws = 0
    /\ readyState = [s \in Sockets |-> "NONE"]
    /\ closeCalled = {}
    /\ connected = FALSE
    /\ authenticated = FALSE
    /\ serverInfo = "null"
    /\ messageId = 0
    /\ pendingRequests = {}
    /\ connectPromise = [s \in Sockets |-> NoPromise]
    /\ connectTimer = [s \in Sockets |-> FALSE]
    /\ requestPromise = [i \in RequestIds |-> NoPromise]
    /\ requestTimer = {}
    /\ completions = [i \in RequestIds |-> 0]
    /\ wire = <<>>
    /\ crashed = FALSE
    /\ reconnectTimer = "undefined"
    /\ timers = 0
    /\ invocations = <<>>
    /\ steps = 0
    /\ last = Step("init", "none", "none", 0)

Init ==
    /\ \/ /\ program = "cli"
          /\ token \in {GATEWAY_TOKEN, "T1"}
          /\ autoConnect = FALSE
          /\ activated = TRUE
       \/ /\ program = "extension"
          /\ token = "T1"
          /\ autoConnect \in BOOLEAN
          /\ activated = FALSE
    /\ InitSession
    /\ InitFileIPC
    /\ InitChat
    /\ InitBroadcast

Next ==
    \/ connect
    \/ \E s \in Sockets : onOpen(s)
    \/ \E s \in Sockets, msg \in InboundFrames : onMessage(s, msg)
    \/ \E s \in Sockets : onError(s)
    \/ \E s \in Sockets : onClose(s)
    \/ \E s \in Sockets : connectTimeout(s)
    \/ \E m \in Methods : request(m)
    \/ \E i \in RequestIds : requestTimeout(i)
    \/ disconnect
    \/ \E urlOk \in BOOLEAN : activate(urlOk)
    \/ \E urlOk \in BOOLEAN : GC_connect(urlOk)
    \/ \E urlOk \in BOOLEAN, held \in BOOLEAN : GC_reconnect(urlOk, held)
    \/ \E s \in Sockets : GC_onOpen(s)
    \/ \E s \in Sockets, msg \in GC_InboundFrames : GC_onMessage(s, msg)
    \/ \E i \in 1..MaxInvocations : GC_invokeDone(i)
    \/ \E s \in Sockets : GC_onError(s)
    \/ \E s \in Sockets : GC_onClose(s)
    \/ GC_disconnect
    \/ \E m \in Methods : GC_sendRequest(m)
    \/ \E i \in RequestIds : GC_requestTimeout(i)

Spec == Init /\ [][Next]_vars

\* -------------------------------------------------------------- wire codec
\* send() writes JSON.stringify(message); the message handlers read
\* JSON.parse(data.toString()). A JavaScript value is held as its type, its text
\* and, for an object, its fields; a frame is an object whose fields may be objects
\* of scalars.
FrameKeys == <<"type", "event", "id", "method", "params", "ok", "payload", "error",
               "result">>
FieldKeys == <<"token", "nonce", "type", "message", "action">>

KeySet(keys) == {keys[i] : i \in 1..Len(keys)}

JsScalar(t, v) == [t |-> t, v |-> v]
NoFields == [k \in KeySet(FieldKeys) |-> JsScalar("undefined", "")]
JsValue(t, v) == [t |-> t, v |-> v, o |-> NoFields]
JsUndefined == JsValue("undefined", "")
JsString(s) == JsValue("string", s)
JsNumber(n) == JsValue("number", n)
JsBoolean(b) == JsValue("boolean", b)
JsObject(fields) == [t |-> "object", v |-> "", o |-> fields]
NoParams == JsObject(NoFields)
EmptyFrame == [k \in KeySet(FrameKeys) |-> JsUndefined]

\* the JSON type a value is written with: NaN and Infinity are written as null
JsonType(t, v) == IF t = "number" /\ v \in {"NaN", "Infinity"} THEN "null" ELSE t
JsonText(t, v) == IF JsonType(t, v) = "null" THEN "" ELSE v

\* the members JSON.stringify writes for an object: one per key, in order, whose
\* value is not undefined
Members(keys, obj) == SelectSeq(keys, LAMBDA k : obj[k].t # "undefined")

\* mutant: undefined members are written as null, as JSON.stringify does in arrays
JSON_stringify_UndefinedAsNull(message) ==
    [i \in 1..Len(FrameKeys) |->
        LET k == FrameKeys[i]
            val == message[k]
            kind == IF val.t = "undefined" THEN "null" ELSE JsonType(val.t, val.v)
        IN [key |-> k, t |-> kind, v |-> JsonText(kind, val.v),
            o |-> [j \in 1..Len(FieldKeys) |->
                      LET f == val.o[FieldKeys[j]]
                          fk == IF f.t = "undefined" /\ val.t = "object" THEN "null"
                                ELSE JsonType(f.t, f.v)
                      IN <<FieldKeys[j], fk, JsonText(fk, f.v)>>]]]

\* JSON.stringify(message): the text, as the sequence of the members it writes
JSON_stringify(message) ==
    LET ks == Members(FrameKeys, message) IN
    [i \in 1..Len(ks) |->
        LET val == message[ks[i]]
            fs == Members(FieldKeys, val.o)
        IN [key |-> ks[i], t |-> JsonType(val.t, val.v), v |-> JsonText(val.t, val.v),
            o |-> [j \in 1..Len(fs) |->
                      <<fs[j], JsonType(val.o[fs[j]].t, val.o[fs[j]].v),
                        JsonText(val.o[fs[j]].t, val.o[fs[j]].v)>>]]]

\* JSON.parse(text), read the way the handlers read it: msg.key is undefined for
\* a member the text does not have
JSON_parse(text) ==
    [k \in KeySet(FrameKeys) |->
        IF \E i \in 1..Len(text) : text[i].key = k
        THEN LET m == text[CHOOSE i \in 1..Len(text) : text[i].key = k] IN
             [t |-> m.t, v |-> m.v,
              o |-> [f \in KeySet(FieldKeys) |->
                        IF \E j \in 1..Len(m.o) : m.o[j][1] = f
                        THEN LET e == m.o[CHOOSE j \in 1..Len(m.o) : m.o[j][1] = f]
                             IN JsScalar(e[2], e[3])
                        ELSE JsScalar("undefined", "")]]
        ELSE JsUndefined]

\* tokens a client may be configured with: '' makes authenticate() send auth: undefined
CodecTokens == {"T1", ""}
CodecIds == {JsString(String(n)) : n \in RequestNumbers} \cup
            {JsNumber(String(n)) : n \in RequestNumbers} \cup {JsString("x")}

\* the frames of the protocol, as the two clients build and read them
ValidFrames ==
    {[EmptyFrame EXCEPT !.type = JsString("event"),
                        !.event = JsString("connect.challenge"),
                        !.payload = JsObject([NoFields EXCEPT
                                        !.nonce = JsScalar("string", "N1")])]}
    \cup
    {[EmptyFrame EXCEPT !.type = JsString("event"), !.event = JsString("chat"),
                        !.payload = JsObject([NoFields EXCEPT
                                        !.message = JsScalar("string", "hi")])]}
    \cup
    {[EmptyFrame EXCEPT !.type = JsString("req"), !.id = JsString("connect"),
                        !.method = JsString("connect"),
                        !.params = JsObject([NoFields EXCEPT
                                        !.token = JsScalar("string", tok)])] :
        tok \in CodecTokens}
    \cup
    {[EmptyFrame EXCEPT !.type = JsString("connect"),
                        !.params = JsObject([NoFields EXCEPT
                                        !.token = IF tok = ""
                                                  THEN JsScalar("undefined", "")
                                                  ELSE JsScalar("string", tok)])] :
        tok \in CodecTokens}
    \cup
    {[EmptyFrame EXCEPT !.type = JsString("req"), !.id = i, !.method = JsString(m),
                        !.params = NoParams] : i \in CodecIds, m \in Methods}
    \cup
    {[EmptyFrame EXCEPT !.id = i, !.method = JsString(m), !.params = NoParams] :
        i \in CodecIds, m \in Methods}
    \cup
    {[EmptyFrame EXCEPT !.type = JsString("res"), !.id = i, !.ok = JsBoolean("true"),
                        !.payload = JsObject([NoFields EXCEPT
                                        !.type = JsScalar("string", p)])] :
        i \in CodecIds, p \in Payloads}
    \cup
    {[EmptyFrame EXCEPT !.type = JsString("res"), !.id = i, !.ok = JsBoolean("false"),
                        !.error = e] :
        i \in CodecIds,
        e \in {JsObject([NoFields EXCEPT !.message = JsScalar("string", "E1")]),
               JsString("E1"), JsUndefined}}
    \cup
    {[EmptyFrame EXCEPT !.id = i, !.method = JsString("vscode.invoke"),
                        !.params = JsObject([NoFields EXCEPT
                                        !.action = JsScalar("string", a)])] :
        i \in CodecIds, a \in Actions}
    \cup
    {[EmptyFrame EXCEPT !.id = i, !.result = JsString("R1")] : i \in CodecIds}
    \cup
    {[EmptyFrame EXCEPT !.id = i,
                        !.error = JsObject([NoFields EXCEPT
                                      !.message = JsScalar("string", "Unknown action")])] :
        i \in CodecIds}

\* one frame goes over the wire: written by send(), read back by a message handler
transmit(f) ==
    /\ program = "codec"
    /\ Tick
    /\ wire' = <<JSON_stringify(f)>>
    /\ last' = [op |-> "transmit", sent |-> f,
                received |-> JSON_parse(JSON_stringify(f))]
    /\ UNCHANGED <<ws, readyState, closeCalled, connected, authenticated, serverInfo,
                   messageId, pendingRequests, connectPromise, connectTimer,
                   requestPromise, requestTimer, completions, crashed>>
    /\ UNCHANGED <<configVars, extensionVars, actionVars>>

CodecInit ==
    /\ program = "codec"
    /\ token = "T1"
    /\ autoConnect = FALSE
    /\ activated = FALSE
    /\ InitSession
    /\ InitFileIPC
    /\ InitChat
    /\ InitBroadcast

CodecNext == \E f \in ValidFrames : transmit(f)

CodecSpec == CodecInit /\ [][CodecNext]_vars

IpcInit ==
    /\ program = "ipc"
    /\ token = "T1"
    /\ autoConnect = FALSE
    /\ activated = FALSE
    /\ InitSession
    /\ InitFileIPC
    /\ InitChat
    /\ InitBroadcast

IpcNext ==
    \/ \E j \in RequestTexts : writeRequest(j)
    \/ \E i \in Ticks : processRequest(i)
    \/ \E i \in Ticks : fileExists(i)
    \/ \E i \in Ticks : readFile(i)
    \/ \E i \in Ticks : deleteFile(i)
    \/ \E i \in Ticks, thrown \in BOOLEAN : actionSettled(i, thrown)

IpcSpec == IpcInit /\ [][IpcNext]_vars

ChatInit ==
    /\ program = "chat"
    /\ token = "T1"
    /\ autoConnect = FALSE
    /\ activated = FALSE
    /\ InitSession
    /\ InitFileIPC
    /\ InitChat
    /\ InitBroadcast

ChatNext ==
    \/ \E t \in Timeouts, thrown \in BOOLEAN : chatWithAntigravity(t, thrown)
    \/ \E state \in ConversationStates, busy \in BusyStates, delay \in {0, PollInterval} :
          poll(state, busy, delay)
    \/ pollTimeout

ChatSpec == ChatInit /\ [][ChatNext]_vars

BroadcastInit ==
    /\ program = "broadcast"
    /\ token = "T1"
    /\ autoConnect = FALSE
    /\ activated = FALSE
    /\ InitSession
    /\ InitFileIPC
    /\ InitChat
    /\ InitBroadcast

BroadcastNext ==
    \/ \E list \in AgentLists : broadcastToAgents(list)
    \/ \E commandThrows \in BOOLEAN : broadcastTurn(commandThrows)

BroadcastSpec == BroadcastInit /\ [][BroadcastNext]_vars

\* ------------------------------------------------------------------- claims

\* C1: request(method, params) called while authenticated is false throws the
\* not-authenticated error, writes no frame, adds no entry to pendingRequests and
\* takes no id.
C1_UnauthenticatedRequestFails ==
    [][\A m \in Methods :
          (request(m) /\ ~authenticated) =>
              /\ last'.thrown = "Not authenticated"
              /\ wire' = wire
              /\ pendingRequests' = pendingRequests
              /\ messageId' = messageId
              /\ requestPromise' = requestPromise]_vars

\* C1 witness: a session that was authenticated, lost that, and refused a request
C1_Witness ==
    /\ last.op = "request"
    /\ last.thrown = "Not authenticated"
    /\ serverInfo # "null"
    /\ ~authenticated

\* C2 (as claimed): a success response that carries the id of a pending request
\* resolves that request's caller with the response's payload and touches no other
\* caller.
C2_EveryCallerGetsItsPayload ==
    [][\A s \in Sockets, msg \in ResFrames :
          (onMessage(s, msg) /\ msg.ok /\ msg.id \in pendingRequests) =>
              /\ requestPromise'[msg.id] = Resolved(msg.payload)
              /\ \A j \in RequestIds \ {msg.id} : requestPromise'[j] = requestPromise[j]]_vars

\* C2, for payloads that are not of type hello-ok: the part of the claim that holds
C2_DataPayloadsAreMatchedById ==
    [][\A s \in Sockets, msg \in ResFrames :
          (onMessage(s, msg) /\ msg.ok /\ msg.payload # HelloOk
             /\ msg.id \in pendingRequests) =>
              /\ requestPromise'[msg.id] = Resolved(msg.payload)
              /\ msg.id \notin pendingRequests'
              /\ \A j \in RequestIds \ {msg.id} : requestPromise'[j] = requestPromise[j]]_vars

\* C3: in both clients a caller is completed at most once, and a completed
\* request has no entry left for the other trigger to find.
C3_CompletedAtMostOnce ==
    \A id \in RequestIds :
        /\ completions[id] <= 1
        /\ completions[id] = 1 => id \notin pendingRequests
        /\ id \in pendingRequests => requestPromise[id].state = "pending"

\* C3 witness: a response won, and the timer that fired afterwards found no entry
C3_Witness ==
    /\ last.op = "requestTimeout"
    /\ requestPromise[last.id].state = "resolved"
    /\ completions[last.id] = 1

\* C4: the timer of a request still pending rejects it with the timeout error and
\* removes its entry; a response with that id arriving later changes no caller,
\* completes nothing and throws nothing.
C4_TimeoutThenLateResponse ==
    [][/\ \A id \in RequestIds :
              (requestTimeout(id) /\ id \in pendingRequests) =>
                  /\ requestPromise'[id] = Rejected("Request timeout")
                  /\ id \notin pendingRequests'
       /\ \A s \in Sockets, msg \in ResFrames :
              (/\ onMessage(s, msg)
               /\ msg.id \in RequestIds
               /\ requestPromise[msg.id] = Rejected("Request timeout")) =>
                  /\ requestPromise' = requestPromise
                  /\ completions' = completions
                  /\ last'.thrown = "none"
                  /\ ~crashed']_vars

\* C4 witness: a response for a request that had already timed out has arrived
C4_Witness ==
    /\ program = "cli"
    /\ last.op = "message"
    /\ last.id \in RequestIds
    /\ requestPromise[last.id] = Rejected("Request timeout")

\* C5 (as claimed): when a close event is handled or disconnect() is called, every
\* pending request is failed and pendingRequests is empty afterwards.
C5_TeardownFailsPending ==
    [][(\/ \E s \in Sockets : onClose(s) \/ GC_onClose(s)
        \/ disconnect
        \/ GC_disconnect) =>
          /\ pendingRequests' = {}
          /\ \A id \in pendingRequests : requestPromise'[id].state = "rejected"]_vars

\* the frame sendConnect() writes to socket s
ConnectFrame(s) == OutFrame(s, "req", "connect", "connect", token, "none")

\* C6 (as claimed): every connect.challenge frame makes the client write one
\* connect request with its token, and is not handed to the observer.
C6_ChallengeAlwaysAnswered ==
    [][\A s \in Sockets :
          onMessage(s, ChallengeFrame) =>
              /\ Len(wire') = Len(wire) + 1
              /\ wire'[Len(wire')].method = "connect"
              /\ wire'[Len(wire')].token = token
              /\ last'.observer = 0]_vars

\* C6 (amended): a connect.challenge frame makes the client write exactly one
\* connect request with its token to its current socket when that socket is OPEN,
\* and nothing otherwise; it is never handed to the observer.
C6_ChallengeAnsweredOnOpenSocket ==
    [][\A s \in Sockets :
          onMessage(s, ChallengeFrame) =>
              /\ wire' = IF IsOpen(ws) THEN Append(wire, ConnectFrame(ws)) ELSE wire
              /\ last'.observer = 0
              /\ UNCHANGED <<authenticated, pendingRequests, requestPromise>>]_vars

\* C6 witness: the frame just handled was a challenge (it went to no observer,
\* threw nothing, and no hello-ok or error response has been handled yet) and the
\* only frame written is the connect request answering it
C6_Witness ==
    /\ program = "cli"
    /\ last = Step("message", "none", "none", 0)
    /\ serverInfo = "null"
    /\ \A s \in Sockets : connectPromise[s].state # "rejected"
    /\ wire = <<ConnectFrame(ws)>>

\* C7 (as claimed): the hello-ok response resolves the outstanding connect() call
\* with the response's payload.
C7_ConnectResolvesWithPayload ==
    [][\A s \in Sockets, msg \in ResFrames :
          (onMessage(s, msg) /\ msg.ok /\ msg.payload = HelloOk
             /\ connectPromise[s].state = "pending") =>
              connectPromise'[s] = Resolved(msg.payload)]_vars

\* C7 (amended): the hello-ok response sets authenticated, stores its payload in
\* serverInfo, and resolves the outstanding connect() call with the client object.
C7_HelloOkAuthenticates ==
    [][\A s \in Sockets, msg \in ResFrames :
          (onMessage(s, msg) /\ msg.ok /\ msg.payload = HelloOk) =>
              /\ authenticated'
              /\ serverInfo' = msg.payload
              /\ connectPromise[s].state = "pending" =>
                    connectPromise'[s] = Resolved("this")]_vars

\* C7 witness: a connect() call resolved by the hello-ok response
C7_Witness ==
    \E s \in Sockets :
        /\ connectPromise[s] = Resolved("this")
        /\ authenticated
        /\ serverInfo = HelloOk
        /\ last.op = "message"

\* C8: an ok:false response received while not authenticated rejects the
\* outstanding connect() call with the server's message, or with the fallback when
\* there is none; authenticated stays false and no request is completed.
C8_AuthErrorRejectsConnect ==
    [][\A s \in Sockets, msg \in ResFrames :
          (onMessage(s, msg) /\ ~msg.ok /\ ~authenticated) =>
              /\ connectPromise[s].state = "pending" =>
                    connectPromise'[s] =
                        Rejected(IF msg.error = "none" THEN "Connection failed"
                                 ELSE msg.error)
              /\ ~authenticated'
              /\ pendingRequests' = pendingRequests
              /\ requestPromise' = requestPromise
              /\ completions' = completions]_vars

\* C8 witness: the error response carried the id of a request that is still pending
C8_Witness ==
    /\ program = "cli"
    /\ last.op = "message"
    /\ last.id \in pendingRequests
    /\ ~authenticated
    /\ \E s \in Sockets : connectPromise[s].state = "rejected"

C10_OneReconnectPerClose ==
    [][\A s \in Sockets :
          (GC_onClose(s) /\ s \notin closeCalled /\ autoConnect) =>
              /\ timers' = 1
              /\ reconnectTimer' = "armed"]_vars

\* C10 witness: two sockets were closed by the gateway, one timer is armed
C10_Witness ==
    /\ program = "extension"
    /\ last.op = "close"
    /\ closeCalled = {}
    /\ \A s \in Sockets : readyState[s] = "CLOSED"
    /\ timers = 1

\* C11 (as claimed): the close event that follows disconnect(), before any further
\* call of connect(), arms no reconnect timer, whatever autoConnect is.
C11_NoReconnectAfterDisconnect ==
    [][\A s \in Sockets :
          (GC_onClose(s) /\ last.op = "disconnect" /\ s \in closeCalled) =>
              /\ timers' = 0
              /\ reconnectTimer' # "armed"]_vars

\* C12: disconnect() called while a reconnect timer is armed cancels it: no timer
\* is armed afterwards, so the connect() it would have triggered cannot run.
C12_DisconnectCancelsTimer ==
    [][(GC_disconnect /\ timers > 0) =>
          /\ timers' = 0
          /\ reconnectTimer' = "undefined"
          /\ NumSockets' = NumSockets]_vars

\* C12 witness: the gateway closed the socket (arming the timer with autoConnect
\* on) and the very next call was disconnect()
C12_Witness ==
    /\ program = "extension"
    /\ autoConnect
    /\ steps = 4
    /\ last.op = "disconnect"
    /\ \E s \in Sockets : readyState[s] = "CLOSED"
    /\ timers = 0

\* C13: at most one reconnect timer is armed in every reachable state, and it is
\* the one reconnectTimer holds; scheduleReconnect replaces an armed timer.
C13_AtMostOneReconnectTimer ==
    /\ timers <= 1
    /\ timers = 1 <=> reconnectTimer = "armed"

\* C13 witness: the gateway closed the socket, then connect() failed: two
\* schedulings in a row, one timer armed
C13_Witness ==
    /\ program = "extension"
    /\ last.op = "connect"
    /\ ws # 0
    /\ readyState[ws] = "CLOSED"
    /\ closeCalled = {}
    /\ timers = 1

\* C14 (as claimed): in both clients at most one socket is live (connecting or
\* open) in every reachable state.
C14_AtMostOneLiveSocket ==
    Cardinality({s \in Sockets : readyState[s] \in {"CONNECTING", "OPEN"}}) <= 1

\* C14 (as claimed), GatewayConnection alone: the same, for the extension
C14_ExtensionHasOneLiveSocket ==
    program = "extension" => C14_AtMostOneLiveSocket

\* C15 (as claimed): in both clients a frame that is not valid JSON is dropped: no
\* exception leaves the message callback, the session state is unchanged and no
\* pending request is completed.
C15_MalformedFrameIsDropped ==
    [][\A s \in Sockets :
          (onMessage(s, Malformed) \/ GC_onMessage(s, Malformed)) =>
              /\ ~crashed'
              /\ UNCHANGED <<authenticated, ws, readyState, pendingRequests,
                             requestPromise, completions, wire>>]_vars

\* C15, GatewayConnection alone: handleMessage catches the parse error
C15_ExtensionDropsMalformedFrame ==
    [][\A s \in Sockets :
          GC_onMessage(s, Malformed) =>
              /\ ~crashed'
              /\ last'.thrown = "caught"
              /\ UNCHANGED <<authenticated, ws, readyState, pendingRequests,
                             requestPromise, completions, wire, invocations>>]_vars

\* the reply handleMessage builds for the i-th running invocation
InvokeReply(i) ==
    LET outcome == HandlerOutcome(invocations[i].action) IN
    OutFrame(ws, IF outcome.ok THEN "result" ELSE "error", invocations[i].id,
             "none", "none", outcome.value)

\* C16 (as claimed): every vscode.invoke handler that settles writes exactly one
\* reply frame, whatever has happened to the socket meanwhile.
C16_ExactlyOneReply ==
    [][\A i \in 1..MaxInvocations :
          GC_invokeDone(i) => Len(wire') = Len(wire) + 1]_vars

\* C16 (amended): a vscode.invoke frame whose id is not that of a pending request
\* starts the handler once and writes nothing yet; when the handler settles, one
\* reply is written if the socket the connection then holds is OPEN and none
\* otherwise, and the invocation is finished either way.
C16_AtMostOneReply ==
    [][/\ \A s \in Sockets, msg \in GC_Invokes :
              (GC_onMessage(s, msg) /\ msg.id \notin pendingRequests) =>
                  /\ invocations' =
                        Append(invocations,
                               [id |-> msg.id, action |-> msg.action, sock |-> s])
                  /\ wire' = wire
       /\ \A i \in 1..MaxInvocations :
              GC_invokeDone(i) =>
                  /\ wire' = IF IsOpen(ws) THEN Append(wire, InvokeReply(i)) ELSE wire
                  /\ Len(invocations') = Len(invocations) - 1]_vars

\* C16 witness: the socket closed while the handler ran; the handler has settled
\* and the only frame ever written is the connect frame sent on open
C16_Witness ==
    /\ program = "extension"
    /\ last.op = "invokeDone"
    /\ ws # 0
    /\ readyState[ws] = "CLOSED"
    /\ Len(wire) = 1
    /\ wire[1].type = "connect"

C18_ReplyOnSameSocket ==
    [][\A i \in 1..MaxInvocations :
          GC_invokeDone(i) =>
              \/ wire' = wire
              \/ wire'[Len(wire')].sock = invocations[i].sock]_vars

\* C18 (as claimed), the case it names: the socket of the invocation has closed
\* while the handler ran; no reply is written to the socket that replaced it
C18_NoReplyOnReplacementSocket ==
    [][\A i \in 1..MaxInvocations :
          (GC_invokeDone(i) /\ readyState[invocations[i].sock] = "CLOSED") =>
              wire' = wire]_vars

\* C19: in both clients the counter never decreases, every id handed out is the
\* text of the incremented counter, was never handed out before (no promise and no
\* entry exists for it), and every entry of pendingRequests is an id handed out.
C19_IdsAreFresh ==
    [][/\ messageId' >= messageId
       /\ \A m \in Methods :
              ((request(m) /\ authenticated) \/ GC_sendRequest(m)) =>
                  /\ messageId' = messageId + 1
                  /\ last'.id = String(messageId')
                  /\ last'.id \notin pendingRequests
                  /\ requestPromise[last'.id] = NoPromise
                  /\ pendingRequests' = pendingRequests \cup {last'.id}
       /\ pendingRequests' \subseteq {String(n) : n \in 1..messageId'}]_vars

\* C19 witness: the first request has been completed and a second request has just
\* been given the next id
C19_Witness ==
    /\ last.op = "request"
    /\ last.id = String(2)
    /\ messageId = 2
    /\ requestPromise[String(1)].state \in {"resolved", "rejected"}
    /\ pendingRequests = {String(2)}

\* C20: while autoConnect is false, activation opens no socket, no step arms a
\* reconnect timer (a close or a failed connect included), no reconnect timer
\* fires, and a socket is created only by an explicit call of connect().
C20_NoAutomaticConnection ==
    [][(program = "extension" /\ ~autoConnect) =>
          /\ timers' = 0
          /\ reconnectTimer' # "armed"
          /\ \A urlOk \in BOOLEAN, held \in BOOLEAN : ~GC_reconnect(urlOk, held)
          /\ NumSockets' # NumSockets => \E urlOk \in BOOLEAN : GC_connect(urlOk)]_vars

\* C20 witness: with autoConnect off, a socket opened by an explicit connect() has
\* been closed by the gateway and no timer is armed
C20_Witness ==
    /\ program = "extension"
    /\ ~autoConnect
    /\ last.op = "close"
    /\ closeCalled = {}
    /\ timers = 0
    /\ reconnectTimer = "undefined"

\* C21 (as claimed): no accepted request is ever left with nothing that can
\* complete it: while its caller waits, its 30 s timer is armed and the process is
\* alive to run it.
C21_EveryRequestCanComplete ==
    \A id \in RequestIds :
        requestPromise[id].state = "pending" => (id \in requestTimer /\ ~crashed)

\* C21, the part that holds: a waiting caller always has its entry and its timer,
\* and the timer's callback rejects it (C4); only the end of the process stops it
C21_PendingCallerHasTimer ==
    \A id \in RequestIds :
        requestPromise[id].state = "pending" =>
            (id \in requestTimer /\ id \in pendingRequests)

\* C22 (as claimed): connect() always completes: no connect() call is left
\* waiting once its 15 s timer has fired and its socket has closed, after which
\* nothing can settle it any more.
C22_ConnectAlwaysCompletes ==
    \A s \in Sockets :
        ~(/\ connectPromise[s].state = "pending"
          /\ ~connectTimer[s]
          /\ readyState[s] = "CLOSED")

\* C22, the part that holds: connect() resolves only from the hello-ok branch,
\* which sets authenticated first, and a settled connect() is never settled again
C22_ResolvesOnlyWhenAuthenticated ==
    [][\A s \in Sockets :
          /\ (connectPromise[s].state # "resolved" /\ connectPromise'[s].state = "resolved")
                => (authenticated' /\ serverInfo' = HelloOk)
          /\ connectPromise[s].state \in {"resolved", "rejected"}
                => connectPromise'[s] = connectPromise[s]]_vars

\* the request frames written so far that carry the id
RequestFrames(id) ==
    {k \in 1..Len(wire) : wire[k].type \in {"req", "request"} /\ wire[k].id = id}

\* C23: in both clients the frame of a request is written at most once, and only
\* by request() / sendRequest(): no timer, socket event or connect() writes a
\* request frame.
C23_RequestFrameWrittenOnce ==
    /\ \A id \in RequestIds : Cardinality(RequestFrames(id)) <= 1
    /\ \A id \in RequestIds : RequestFrames(id) # {} => requestPromise[id] # NoPromise

\* C23 witness: a request was written once, timed out, and the client has
\* connected again on a new socket, which is open
C23_Witness ==
    /\ program = "cli"
    /\ Cardinality(RequestFrames(String(1))) = 1
    /\ requestPromise[String(1)] = Rejected("Request timeout")
    /\ ws = 2
    /\ readyState[2] = "OPEN"
    /\ \E k \in RequestFrames(String(1)) : wire[k].sock = 1

\* C24 (as claimed): after a disconnect(), once connect() has been called again and
\* the hello-ok has arrived on the new socket, the session is authenticated for as
\* long as that socket is the client's open socket, so request() is accepted.
C24_ReconnectedSessionIsReady ==
    \A s \in Sockets :
        (/\ program = "cli"
         /\ closeCalled # {}
         /\ ws = s
         /\ readyState[s] = "OPEN"
         /\ connectPromise[s].state = "resolved") => authenticated

\* C24, the part that holds: connect() after a close or a disconnect() opens a
\* socket that did not exist before and makes it the client's socket; a hello-ok
\* on it sets authenticated; an accepted request is written to the client's
\* current socket and to no other
C24_ReconnectAuthenticates ==
    [][/\ connect => (/\ readyState[ws'] = "NONE"
                      /\ readyState'[ws'] = "CONNECTING"
                      /\ connectPromise'[ws'] = Pending)
       /\ \A s \in Sockets, msg \in ResFrames :
              (onMessage(s, msg) /\ msg.ok /\ msg.payload = HelloOk) => authenticated'
       /\ \A m \in Methods :
              (request(m) /\ authenticated /\ IsOpen(ws)) =>
                  /\ Len(wire') = Len(wire) + 1
                  /\ wire'[Len(wire')].sock = ws]_vars

\* C25 (as claimed): in both clients the open event of a socket writes no frame.
C25_OpenSendsNothing ==
    [][\A s \in Sockets : (onOpen(s) \/ GC_onOpen(s)) => wire' = wire]_vars

\* C25, AntigravityGatewayClient alone: its open handler only sets connected
C25_CliOpenSendsNothing ==
    [][\A s \in Sockets : onOpen(s) => (wire' = wire /\ connected')]_vars

\* C26 (as claimed): the session is authenticated only after the client's connect
\* request has been written (which takes an open socket and a challenge): a
\* hello-ok that answers no connect request does not make the session ready.
C26_AuthenticatedOnlyAfterHandshake ==
    (program = "cli" /\ authenticated) =>
        \E k \in 1..Len(wire) : wire[k].type = "req" /\ wire[k].method = "connect"

\* C27 (as claimed): a decoded frame that is not a challenge, not a hello-ok
\* response, and completes neither a pending request nor a connect() call is
\* handed to the observer exactly once and changes neither pendingRequests nor
\* authenticated.
C27_UnclaimedFramesReachObserver ==
    [][\A s \in Sockets, msg \in InboundFrames \ {Malformed, ChallengeFrame} :
          (/\ onMessage(s, msg)
           /\ ~(msg.type = "res" /\ msg.ok /\ msg.payload = HelloOk)
           /\ requestPromise' = requestPromise
           /\ connectPromise' = connectPromise) =>
              /\ last'.observer = 1
              /\ pendingRequests' = pendingRequests
              /\ authenticated' = authenticated]_vars

\* C27 (amended): a decoded frame that is not a challenge, not a hello-ok
\* response, not an ok:false response received while unauthenticated, and not a
\* response whose id is in pendingRequests is handed to the observer exactly once
\* and changes nothing of the session.
C27_OtherFramesReachObserver ==
    [][\A s \in Sockets, msg \in InboundFrames \ {Malformed, ChallengeFrame} :
          (/\ onMessage(s, msg)
           /\ ~(msg.type = "res" /\ msg.ok /\ msg.payload = HelloOk)
           /\ ~(msg.type = "res" /\ ~msg.ok /\ ~authenticated)
           /\ ~(msg.type = "res" /\ msg.id \in pendingRequests)) =>
              /\ last'.observer = 1
              /\ UNCHANGED <<pendingRequests, authenticated, requestPromise,
                             connectPromise, completions, serverInfo, wire>>]_vars

\* C27 witness: a response whose id is not (or no longer) in pendingRequests has
\* been handed to the observer of an authenticated session
C27_Witness ==
    /\ program = "cli"
    /\ last.op = "message"
    /\ last.observer = 1
    /\ last.id \in RequestIds
    /\ last.id \notin pendingRequests
    /\ authenticated

C29_InvokeIsAlwaysDispatched ==
    [][\A s \in Sockets, msg \in GC_Invokes :
          GC_onMessage(s, msg) =>
              /\ invocations' =
                    Append(invocations,
                           [id |-> msg.id, action |-> msg.action, sock |-> s])
              /\ pendingRequests' = pendingRequests
              /\ requestPromise' = requestPromise]_vars

\* C29, the part that holds: an invocation whose id is not outstanding is
\* dispatched (C16_AtMostOneReply states it together with the reply)
C29_InvokeWithFreeIdIsDispatched ==
    [][\A s \in Sockets, msg \in GC_Invokes :
          (GC_onMessage(s, msg) /\ msg.id \notin pendingRequests) =>
              /\ Len(invocations') = Len(invocations) + 1
              /\ pendingRequests' = pendingRequests
              /\ requestPromise' = requestPromise]_vars

\* C30 (as claimed): in both clients every entry of pendingRequests has had its
\* request frame written to a socket.
C30_PendingRequestWasSent ==
    \A id \in pendingRequests : RequestFrames(id) # {}

\* C30 (as claimed), AntigravityGatewayClient alone
C30_CliPendingRequestWasSent ==
    program = "cli" => C30_PendingRequestWasSent

\* C31 (as claimed): the flags describe the current socket: authenticated implies
\* connected and an open current socket.
C31_FlagsDescribeCurrentSocket ==
    (program = "cli" /\ authenticated) => (connected /\ IsOpen(ws))

\* C31 (as claimed), the late close: the close event of a socket that is no
\* longer the client's socket leaves the flags alone
C31_LateCloseKeepsFlags ==
    [][\A s \in Sockets :
          (onClose(s) /\ s # ws) =>
              UNCHANGED <<authenticated, connected>>]_vars

\* C32 (as claimed): a frame that arrives on the socket of a connect() call that
\* has been rejected does not make an unauthenticated session authenticated.
C32_NoAuthenticationAfterRejection ==
    [][\A s \in Sockets, msg \in InboundFrames :
          (/\ onMessage(s, msg)
           /\ connectPromise[s].state = "rejected"
           /\ ~authenticated) => ~authenticated']_vars

\* the connect requests written to socket s so far
ConnectFrames(s) ==
    {k \in 1..Len(wire) :
        wire[k].type = "req" /\ wire[k].method = "connect" /\ wire[k].sock = s}

\* C33 (as claimed): at most one connect request is written per socket, however
\* many challenges arrive on it and whether or not the session is authenticated.
C33_OneConnectRequestPerSocket ==
    program = "cli" => \A s \in Sockets : Cardinality(ConnectFrames(s)) <= 1

\* C34 (as claimed): each request written to request.json is executed at most
\* once: no two calls of executeVSCodeAction, by overlapping invocations of
\* processRequest or otherwise, are for the same request file.
C34_EachRequestExecutedOnce ==
    program = "ipc" =>
        \A a, b \in 1..Len(executed) :
            executed[a].serial = executed[b].serial => a = b

\* the writes of response.json by invocation i
WritesOf(i) == {k \in 1..Len(responseWrites) : responseWrites[k].by = i}

\* invocation i has read and deleted a request file and has returned or thrown
Consumed(i) ==
    /\ processing[i].content # NoFile
    /\ processing[i].pc \in {"done", "threw"}

C35_Responses ==
    program = "ipc" =>
        \A i \in Ticks :
            /\ processing[i].pc # "threw"
            /\ Consumed(i) =>
                 \E k \in WritesOf(i) :
                    /\ WritesOf(i) = {k}
                    /\ LET body == responseWrites[k].body
                           id == String(processing[i].content.serial)
                       IN  IF processing[i].content.json = "invalid"
                           THEN /\ body = IpcResponse(FALSE, "Parse error", "absent",
                                                      NoResult)
                                /\ \A e \in 1..Len(executed) : executed[e].by # i
                           ELSE \/ body = IpcResponse(TRUE, "none", id, "result")
                                \/ body = IpcResponse(FALSE, "action error", id, NoResult)

\* C35 (as claimed): every request file an invocation of processRequest consumes
\* leads to exactly one write of response.json, of the shape its outcome calls
\* for (a parse error without running an action; the result or the error with
\* the request's id otherwise); the request file is gone when the action starts;
\* no fault escapes processRequest.
C35_OneResponsePerConsumedRequest ==
    /\ []C35_Responses
    /\ [][executed' # executed => requestFile' = NoFile]_vars

\* the last three polls saw the same non-empty response length
ThreeEqualPolls(seen) ==
    /\ Len(seen) >= 3
    /\ seen[Len(seen)] > 0
    /\ seen[Len(seen) - 1] = seen[Len(seen)]
    /\ seen[Len(seen) - 2] = seen[Len(seen)]

\* C36 (as claimed): the poll that makes it 3 consecutive polls with the same
\* non-empty response length returns {success: true, response} with the captured
\* text, and a poll that sees a different non-empty length resets the count.
C36_ReturnsAfterThreeEqualPolls ==
    [][\A state \in ConversationStates, busy \in BusyStates, delay \in {0, PollInterval} :
          poll(state, busy, delay) =>
              /\ ThreeEqualPolls(observed') => chatResult' = Captured(state.length)
              /\ (state.kind = "object" /\ state.length > 0
                    /\ state.length # lastResponseLength) => stableCount' = 0]_vars

\* the calls of sendToAgent made for an agent name, and the last of them
AttemptsFor(name) == {k \in 1..Len(attempts) : attempts[k].agent = name}

LastAttempt(name) ==
    CHOOSE k \in AttemptsFor(name) : \A j \in AttemptsFor(name) : j <= k

\* C37: broadcastToAgents attempts sendToAgent for the names of params.agents in
\* list order; a failure (an unknown name, a throwing command) is recorded as
\* {success: false, error} under that name and the later agents are still
\* attempted; the call does not throw; when it returns every agent of the list
\* has been attempted and results holds one entry per distinct name, that of the
\* last attempt made for the name.
C37_BroadcastAttemptsEveryAgent ==
    (program = "broadcast" /\ broadcast # "notCalled") =>
        /\ broadcast # "threw"
        /\ Len(attempts) = position - 1
        /\ \A k \in 1..Len(attempts) : attempts[k].agent = agents[k]
        /\ broadcast = "returned" => Len(attempts) = Len(agents)
        /\ \A name \in AgentNames :
              IF AttemptsFor(name) = {}
              THEN results[name] = NoEntry
              ELSE /\ results[name] # NoEntry
                   /\ results[name].success = ~attempts[LastAttempt(name)].thrown
                   /\ results[name].success <=> results[name].error = "none"
                   /\ toLowerCase(name) = "nobody" =>
                         results[name] = [success |-> FALSE, error |-> "Unknown agent"]

\* a broadcast to an unknown agent, then twice to claude, whose command failed the
\* first time, has returned
C37_FailuresDidNotStopBroadcast ==
    /\ program = "broadcast"
    /\ broadcast = "returned"
    /\ agents = <<"nobody", "claude", "claude">>
    /\ attempts[2].thrown
    /\ ~attempts[3].thrown
    /\ results["claude"] = [success |-> TRUE, error |-> "none"]
    /\ results["nobody"].success = FALSE
    /\ results["Gemini"] = NoEntry

====
